---- MODULE Spec2Model ----
(***************************************************************************)
(* Model of the HYSPLIT input-deck generator (src/mk_control.py):          *)
(* mk_control, mk_emitimes and generate_meteorology_files_for_period.      *)
(*                                                                         *)
(* Representation.                                                         *)
(*  - A Python str is a TLA+ string; str()/format() are computed, digit by *)
(*    digit, by the operators Str, Pad, Fmt3f, Fmt0f, Fmt1f and PyStr.     *)
(*  - A Python number is a record [m |-> thousandths, float |-> BOOLEAN]:  *)
(*    32.03 is [m |-> 32030, float |-> TRUE], the int 10 is                *)
(*    [m |-> 10000, float |-> FALSE].                                      *)
(*  - A point (a dict) is a TLA+ record; a key the dict lacks is a field   *)
(*    the record lacks, and point['k'] on it raises KeyError.              *)
(*  - A document is the list `lines` the function joins with "\n"; no      *)
(*    input string holds a newline, so these are the document's lines.     *)
(*  - A datetime is a record [year, month, day, hour]; timedelta           *)
(*    arithmetic goes through the hours since the start of the calendar.   *)
(*                                                                         *)
(* State machine.  Init is the module after `import mk_control`; MainImport*)
(* is the import of the __main__ block (the only place that binds the name *)
(* timedelta).  CallMkControl and CallMkEmitimes apply the pure functions  *)
(* to arguments drawn from bounded sets; GenEnter, GenInterval, GenWalk    *)
(* and GenReturn step through generate_meteorology_files_for_period.       *)
(* PfEnter .. PfConctxt step through prepare_files of src/main.py, one     *)
(* effect on the destination directory at a time.                          *)
(***************************************************************************)
EXTENDS Integers, Sequences, FiniteSets, TLC

VARIABLES
    module_globals,  \* the names bound in the namespace of module mk_control
    call,            \* the call being made: function name and arguments
    outcome,         \* what the call did: nothing yet, a return value, a raised exception
    pc,              \* position inside generate_meteorology_files_for_period
    start_datetime,  \* locals of generate_meteorology_files_for_period
    end_datetime,
    current_date,
    files_needed,
    fs               \* the destination directory of prepare_files

vars ==
    <<module_globals, call, outcome, pc, start_datetime, end_datetime, current_date,
      files_needed, fs>>

-----------------------------------------------------------------------------
(* Bounds of the model *)

\* longest point sequence passed to mk_control / mk_emitimes
MaxPoints == 2
\* longest explicit meteorology_files list passed to mk_control
MaxMetFiles == 2
\* the durations passed to generate_meteorology_files_for_period reach this many
\* whole weeks, forwards and backwards
MaxWeeks == 2

-----------------------------------------------------------------------------
(* Python values and their formatting *)

\* an optional list argument: None, or a list with its items
None == [py |-> "None"]
List(items) == [py |-> "list", items |-> items]
\* `if x is not None:` in place of `if x:`
Truthy_notNone(x) == x.py = "list"
\* `if x:` for such an argument: None and the empty list are both false
Truthy(x) == x.py = "list" /\ Len(x.items) > 0

Abs(n) == IF n < 0 THEN -n ELSE n

\* str(n) for an int n
Str(n) == ToString(n)

RECURSIVE Zeros(_)
Zeros(k) == IF k <= 0 THEN "" ELSE "0" \o Zeros(k - 1)

\* f"{n:0<w>d}": zero-padded to width w, the sign counted in the width
Pad(n, w) ==
    IF n < 0
        THEN "-" \o Zeros(w - 1 - Len(ToString(-n))) \o ToString(-n)
        ELSE Zeros(w - Len(ToString(n))) \o ToString(n)

Sign(v) == IF v.m < 0 THEN "-" ELSE ""

\* f"{v:.3f}": three decimals (a value of at most three decimals needs no rounding)
Fmt3f(v) ==
    Sign(v) \o ToString(Abs(v.m) \div 1000) \o "." \o Pad(Abs(v.m) % 1000, 3)

\* f"{v:.0f}": no decimals, ties (x.5 is exact in binary) rounded to even
Fmt0f(v) ==
    LET a == Abs(v.m)
        q == a \div 1000
        r == a % 1000
        n == IF r > 500 \/ (r = 500 /\ q % 2 = 1) THEN q + 1 ELSE q
    IN  Sign(v) \o ToString(n)

\* f"{v:.1f}" for a value of at most one decimal
Fmt1f(v) ==
    Sign(v) \o ToString(Abs(v.m) \div 1000) \o "." \o ToString((Abs(v.m) % 1000) \div 100)

\* the decimals of repr(float): trailing zeros dropped, one digit kept
Decimals(r) ==
    IF r % 1000 = 0 THEN "0"
    ELSE IF r % 100 = 0 THEN ToString(r \div 100)
    ELSE IF r % 10 = 0 THEN Pad(r \div 10, 2)
    ELSE Pad(r, 3)

\* str(v) and f"{v}": an int prints its digits, a float its shortest repr
PyStr(v) ==
    IF v.float
        THEN Sign(v) \o ToString(Abs(v.m) \div 1000) \o "." \o Decimals(Abs(v.m) % 1000)
        ELSE Sign(v) \o ToString(Abs(v.m) \div 1000)

PyInt(n) == [m |-> n * 1000, float |-> FALSE]
PyFloat(milli) == [m |-> milli, float |-> TRUE]

\* point[k]: the value, or KeyError
Has(point, k) == k \in DOMAIN point
\* point.get(k, 0)
GetOr0(point, k) == IF Has(point, k) THEN point[k] ELSE PyInt(0)

Return(v) == [kind |-> "return", value |-> v]
Raise(exc, what, shown) == [kind |-> "raise", exc |-> exc, what |-> what, shown |-> shown]
NoOutcome == [kind |-> "none"]

Returned == outcome.kind = "return"
Raised == outcome.kind = "raise"

Min(a, b) == IF a < b THEN a ELSE b

\* the slice forgotten: every point is a species
FirstOnly_all(points) == points
\* points[:1]
FirstOnly(points) == SubSeq(points, 1, Min(1, Len(points)))

\* the first key of `keys` that `point` lacks, "" when it has them all
RECURSIVE FirstMissing(_, _)
FirstMissing(point, keys) ==
    IF keys = <<>> THEN ""
    ELSE IF ~Has(point, Head(keys)) THEN Head(keys)
    ELSE FirstMissing(point, Tail(keys))

\* the key whose lookup fails first when each point of `points`, in order, is
\* read at `keys`, in order; "" when no lookup fails
RECURSIVE FirstKeyError(_, _)
FirstKeyError(points, keys) ==
    IF points = <<>> THEN ""
    ELSE IF FirstMissing(Head(points), keys) # "" THEN FirstMissing(Head(points), keys)
    ELSE FirstKeyError(Tail(points), keys)

-----------------------------------------------------------------------------
(* mk_emitimes *)

EmitHeader ==
    << "YYYY MM DD HH DURATION(hhhh) RECORDS",
       "YYYY MM DD HH MM DURATION(hhmm) LAT LON HGT(m) RATE(/h) AREA(m2) HEAT(w)" >>

\* the record count padded like the two-digit fields
EmitSummary_width2(a) ==
    Str(a.year) \o " " \o Pad(a.month, 2) \o " " \o Pad(a.day, 2) \o " "
        \o Pad(a.hour, 4) \o " " \o Pad(a.duration_hours, 4) \o " "
        \o Pad(Len(a.points), 2)

EmitSummary(a) ==
    Str(a.year) \o " " \o Pad(a.month, 2) \o " " \o Pad(a.day, 2) \o " "
        \o Pad(a.hour, 4) \o " " \o Pad(a.duration_hours, 4) \o " "
        \o Pad(Len(a.points), 4)

EmitRecord(a, pnt) ==
    Str(a.year) \o " " \o Pad(a.month, 2) \o " " \o Pad(a.day, 2) \o " "
        \o Pad(a.hour, 2) \o " " \o Pad(a.minute, 2) \o " "
        \o Pad(a.duration_hours, 2) \o Pad(a.duration_minutes, 2) \o " "
        \o PyStr(pnt.lat) \o " " \o PyStr(pnt.lon) \o " " \o PyStr(pnt.height) \o " "
        \o PyStr(pnt.mass) \o " " \o PyStr(GetOr0(pnt, "area")) \o " "
        \o PyStr(GetOr0(pnt, "heat"))

\* gas read with pnt['gas'] too, as mk_control reads it
EmitKeys_gas == <<"lat", "lon", "height", "mass", "gas">>
EmitKeys == <<"lat", "lon", "height", "mass">>

mk_emitimes(a) ==
    IF FirstKeyError(a.points, EmitKeys) # ""
        THEN Raise("KeyError", FirstKeyError(a.points, EmitKeys), "")
        ELSE Return(EmitHeader \o <<EmitSummary(a)>>
                    \o [i \in 1..Len(a.points) |-> EmitRecord(a, a.points[i])])

-----------------------------------------------------------------------------
(* mk_control *)

month_abbr ==
    << "jan", "feb", "mar", "apr", "may", "jun",
       "jul", "aug", "sep", "oct", "nov", "dec" >>

\* YY MM DD HH
StartTime(a) ==
    Pad(a.year % 100, 2) \o " " \o Pad(a.month, 2) \o " " \o Pad(a.day, 2) \o " "
        \o Pad(a.start_hour, 2)

\* YY MM DD HH MM
ReleaseTime(a) == StartTime(a) \o " 00"

CoordLine(point) ==
    Fmt3f(point.lat) \o " " \o Fmt3f(point.lon) \o "   " \o Fmt0f(point.height)

CoordKeys == <<"lat", "lon", "height">>

\* the week counted from day 0
ControlWeekNum_off(day) == Min(day \div 7 + 1, 5)
\* week of the month, counted from the 1st, at most 5
ControlWeekNum(day) == Min((day - 1) \div 7 + 1, 5)

ControlMetFile(year, month, day) ==
    "gdas1." \o month_abbr[month] \o Pad(year % 100, 2) \o ".w"
        \o Str(ControlWeekNum(day))

\* the lines path, filename of each pair, in order
RECURSIVE PairLines(_)
PairLines(pairs) ==
    IF pairs = <<>> THEN <<>>
    ELSE <<Head(pairs)[1], Head(pairs)[2]>> \o PairLines(Tail(pairs))

\* the explicit branch taken for every list, the empty one included
MetSection_anyList(a) ==
    IF a.meteorology_files.py = "list"
        THEN <<Str(Len(a.meteorology_files.items))>> \o PairLines(a.meteorology_files.items)
        ELSE <<"1", a.meteorology_dir, ControlMetFile(a.year, a.month, a.day)>>

MetSection(a) ==
    IF Truthy(a.meteorology_files)
        THEN <<Str(Len(a.meteorology_files.items))>> \o PairLines(a.meteorology_files.items)
        ELSE <<"1", a.meteorology_dir, ControlMetFile(a.year, a.month, a.day)>>

\* species count, identifiers and masses, read from points[:1]
SpeciesBlock(points) ==
    <<Str(Len(FirstOnly(points)))>>
        \o [i \in 1..Len(FirstOnly(points)) |-> FirstOnly(points)[i].gas]
        \o [i \in 1..Len(FirstOnly(points)) |-> PyStr(FirstOnly(points)[i].mass)]

\* the defaults written in place of the parameters
FixedBlock_defaults(output_dir, output_file) ==
    << "0.0   0.0", "0.05 0.05", "30 30", "./", "cdump", "1", "100",
       "00 00 00 00 00", "00 00 00 00 00", "00 01 00", "1", "0.0 0.0 0.0",
       "0.0 0.0 0.0 0.0 0.0", "0.0 0.0 0.0", "0.0", "0.0" >>

FixedBlock(output_dir, output_file) ==
    << "0.0   0.0", "0.05 0.05", "30 30", output_dir, output_file, "1", "100",
       "00 00 00 00 00", "00 00 00 00 00", "00 01 00", "1", "0.0 0.0 0.0",
       "0.0 0.0 0.0 0.0 0.0", "0.0 0.0 0.0", "0.0", "0.0" >>

\* coordinate lines written for points[:1] only, as the species block is
ControlLines_first(a) ==
    <<StartTime(a), Str(Len(a.points))>>
        \o [i \in 1..Len(FirstOnly(a.points)) |-> CoordLine(a.points[i])]
        \o <<Str(a.duration_hours), Str(a.vertical_method), Fmt1f(a.top_height)>>
        \o MetSection(a)
        \o SpeciesBlock(a.points)
        \o <<"3", ReleaseTime(a), Str(Len(FirstOnly(a.points)))>>
        \o FixedBlock(a.output_dir, a.output_file)

ControlLines(a) ==
    <<StartTime(a), Str(Len(a.points))>>
        \o [i \in 1..Len(a.points) |-> CoordLine(a.points[i])]
        \o <<Str(a.duration_hours), Str(a.vertical_method), Fmt1f(a.top_height)>>
        \o MetSection(a)
        \o SpeciesBlock(a.points)
        \o <<"3", ReleaseTime(a), Str(Len(FirstOnly(a.points)))>>
        \o FixedBlock(a.output_dir, a.output_file)

MonthOk(month) == 1 <= month /\ month <= 12
\* a day check that stops one short of the range
DayOk_short(day) == 1 <= day /\ day < 31
DayOk(day) == 1 <= day /\ day <= 31
HourOk(start_hour) == 0 <= start_hour /\ start_hour <= 23

mk_control(a) ==
    IF ~MonthOk(a.month) THEN Raise("ValueError", "month", Str(a.month))
    ELSE IF ~DayOk(a.day) THEN Raise("ValueError", "day", Str(a.day))
    ELSE IF ~HourOk(a.start_hour) THEN Raise("ValueError", "start_hour", Str(a.start_hour))
    ELSE IF FirstKeyError(a.points, CoordKeys) # ""
        THEN Raise("KeyError", FirstKeyError(a.points, CoordKeys), "")
    ELSE IF FirstKeyError(FirstOnly(a.points), <<"gas">>) # ""
        THEN Raise("KeyError", "gas", "")
    ELSE IF FirstKeyError(FirstOnly(a.points), <<"mass">>) # ""
        THEN Raise("KeyError", "mass", "")
    ELSE Return(ControlLines(a))

-----------------------------------------------------------------------------
(* datetime and timedelta, on whole hours *)

Unbound == [py |-> "unbound"]

DateTime(y, m, d, h) == [year |-> y, month |-> m, day |-> d, hour |-> h]

\* the years the calendar conversions cover
CalendarYears == 2022..2025

IsLeap(y) == (y % 4 = 0 /\ y % 100 # 0) \/ y % 400 = 0

DaysInMonth(y, m) ==
    IF m = 2 THEN (IF IsLeap(y) THEN 29 ELSE 28)
    ELSE IF m \in {4, 6, 9, 11} THEN 30
    ELSE 31

DaysBeforeYear(y) ==
    (y - 1) * 365 + (y - 1) \div 4 - (y - 1) \div 100 + (y - 1) \div 400

RECURSIVE DaysBeforeMonth(_, _)
DaysBeforeMonth(y, m) ==
    IF m = 1 THEN 0 ELSE DaysBeforeMonth(y, m - 1) + DaysInMonth(y, m - 1)

\* hours since the start of the proleptic calendar
DtHours(dt) ==
    (DaysBeforeYear(dt.year) + DaysBeforeMonth(dt.year, dt.month) + dt.day) * 24 + dt.hour

FromHours(t) ==
    LET n == t \div 24
        y == CHOOSE yy \in CalendarYears :
                DaysBeforeYear(yy) < n /\ n <= DaysBeforeYear(yy + 1)
        r == n - DaysBeforeYear(y)
        m == CHOOSE mm \in 1..12 :
                DaysBeforeMonth(y, mm) < r /\ r <= DaysBeforeMonth(y, mm) + DaysInMonth(y, mm)
    IN  DateTime(y, m, r - DaysBeforeMonth(y, m), t % 24)

\* dt + timedelta(hours=h)
AddHours(dt, h) == FromHours(DtHours(dt) + h)
\* dt + timedelta(days=n)
AddDays(dt, n) == FromHours(DtHours(dt) + 24 * n)
\* a > b, a <= b on datetimes
DtGT(a, b) == DtHours(a) > DtHours(b)
\* a <= b with a week of slack, to reach the last partial week
DtLE_week(a, b) == DtHours(a) <= DtHours(b) + 168
DtLE(a, b) == DtHours(a) <= DtHours(b)

-----------------------------------------------------------------------------
(* generate_meteorology_files_for_period *)

\* week of the month, counted from the 1st, at most 5
WalkWeekNum(day) == Min((day - 1) \div 7 + 1, 5)

WalkFilename(date) ==
    "gdas1." \o month_abbr[date.month] \o Pad(date.year % 100, 2) \o ".w"
        \o Str(WalkWeekNum(date.day))

\* the duration added whatever its sign, and no exchange of the bounds
Interval_forward(s, d) == <<s, AddHours(s, d)>>

\* the interval <<start, end>> computed from the start timestamp s and duration d
Interval(s, d) ==
    LET e0 == IF d < 0 THEN s ELSE AddHours(s, d)
        s0 == IF d < 0 THEN AddHours(s, d) ELSE s
    IN  IF DtGT(s0, e0) THEN <<e0, s0>> ELSE <<s0, e0>>

\* de-duplication keyed on the path, the other member of the pair
RECURSIVE Unique_byPath(_, _)
Unique_byPath(files, seen) ==
    IF files = <<>> THEN <<>>
    ELSE IF Head(files)[1] \in seen THEN Unique_byPath(Tail(files), seen)
    ELSE <<Head(files)>> \o Unique_byPath(Tail(files), seen \cup {Head(files)[1]})

\* the entries of `files` whose filename is not in `seen` nor earlier in `files`
RECURSIVE Unique(_, _)
Unique(files, seen) ==
    IF files = <<>> THEN <<>>
    ELSE IF Head(files)[2] \in seen THEN Unique(Tail(files), seen)
    ELSE <<Head(files)>> \o Unique(Tail(files), seen \cup {Head(files)[2]})

-----------------------------------------------------------------------------
(* Inputs *)

\* the points of the repository's examples (main.py, mk_control.py __main__)
Nanjing ==
    [lat |-> PyFloat(32030), lon |-> PyFloat(118460), height |-> PyInt(10),
     mass |-> PyFloat(100000), gas |-> "Cl", name |-> "Nanjing"]
Profile100 ==
    [lat |-> PyFloat(32030), lon |-> PyFloat(118460), height |-> PyInt(100),
     mass |-> PyInt(100), gas |-> "A", name |-> "Nanjing-100m"]
\* a point of the southern and western hemispheres, with area and heat
West ==
    [lat |-> PyFloat(-33500), lon |-> PyFloat(-70667), height |-> PyFloat(10500),
     mass |-> PyFloat(2500), gas |-> "SO2", area |-> PyInt(4), heat |-> PyFloat(1500)]
\* points that lack a key
NoGas ==
    [lat |-> PyFloat(31230), lon |-> PyFloat(121470), height |-> PyInt(10),
     mass |-> PyFloat(1000)]
NoMass ==
    [lat |-> PyFloat(31230), lon |-> PyFloat(121470), height |-> PyInt(10),
     gas |-> "Cl"]
NoLat ==
    [lon |-> PyFloat(121470), height |-> PyInt(10), mass |-> PyFloat(1000),
     gas |-> "Cl"]

PointPool == {Nanjing, Profile100, West, NoGas, NoMass, NoLat}

SeqsUpTo(S, n) == UNION {[1..k -> S] : k \in 0..n}

PointLists == SeqsUpTo(PointPool, MaxPoints)

MetPool == {<<"D:/WeatherData/", "gdas1.apr24.w5">>, <<"E:/met/", "gdas1.may24.w1">>}

MetFileArgs == {None} \cup {List(l) : l \in SeqsUpTo(MetPool, MaxMetFiles)}

\* the keyword arguments of mk_control: its defaults, and two other choices
Keywords ==
    { [meteorology_dir |-> "D:/WeatherData/", duration_hours |-> -6,
       top_height |-> PyFloat(10000000), output_dir |-> "./", output_file |-> "cdump",
       vertical_method |-> 0],
      [meteorology_dir |-> "D:/WeatherData/", duration_hours |-> 24,
       top_height |-> PyFloat(10000000), output_dir |-> "./output/",
       output_file |-> "trajectory_20240502", vertical_method |-> 0],
      [meteorology_dir |-> "E:/met/", duration_hours |-> -72,
       top_height |-> PyFloat(5000500), output_dir |-> "./", output_file |-> "trajectory_3day",
       vertical_method |-> 1] }

DefaultKeywords ==
    CHOOSE k \in Keywords : k.duration_hours = -6

Window(y, m, d, h) == [year |-> y, month |-> m, day |-> d, start_hour |-> h]

\* every month, day and start hour in range, and the values next to the ranges
AllWindows ==
    {Window(y, m, d, h) : y \in {2005, 2024}, m \in 0..13, d \in 0..32,
                          h \in {-1, 0, 12, 23, 24}}

SomeWindows ==
    {Window(2024, 5, 2, 0), Window(2024, 6, 15, 12), Window(2005, 12, 31, 23),
     Window(2024, 1, 1, 0)}

ControlArgs(w, points, mf, kw) ==
    [points |-> points, year |-> w.year, month |-> w.month, day |-> w.day,
     start_hour |-> w.start_hour, meteorology_files |-> mf,
     meteorology_dir |-> kw.meteorology_dir, duration_hours |-> kw.duration_hours,
     top_height |-> kw.top_height, output_dir |-> kw.output_dir,
     output_file |-> kw.output_file, vertical_method |-> kw.vertical_method]

\* the calls of mk_control: every window with a few point lists, and every
\* point list, meteorology list and keyword choice with a few windows
ControlCalls ==
    {ControlArgs(w, ps, None, DefaultKeywords) :
        w \in AllWindows, ps \in {<<>>, <<Nanjing>>, <<West, Nanjing>>, <<NoLat>>}}
    \cup
    {ControlArgs(w, ps, mf, kw) :
        w \in SomeWindows, ps \in PointLists, mf \in MetFileArgs, kw \in Keywords}

EmitArgs(w, points, minute, dh, dm) ==
    [points |-> points, year |-> w.year, month |-> w.month, day |-> w.day,
     hour |-> w.start_hour, minute |-> minute, duration_hours |-> dh,
     duration_minutes |-> dm]

EmitCalls ==
    {EmitArgs(w, ps, mi, dh, dm) :
        w \in SomeWindows \cup {Window(2024, 13, 0, -1)}, ps \in PointLists,
        mi \in {0, 30}, dh \in {-6, 24}, dm \in {0, 5}}

StartDates ==
    {DateTime(ym[1], ym[2], d, h) :
        ym \in {<<2023, 12>>, <<2024, 2>>, <<2024, 5>>}, d \in 1..31, h \in {0, 23}}
    \cap {dt \in [year : {2023, 2024}, month : 1..12, day : 1..31, hour : {0, 23}] :
            dt.day <= DaysInMonth(dt.year, dt.month)}

Durations ==
    {sg * (k * 168 + e) : sg \in {-1, 1}, k \in 0..MaxWeeks, e \in {0, 1, 24, 72, 167}}

GenCalls ==
    [start_datetime : StartDates, duration_hours : Durations,
     base_dir : {"D:/WeatherData/"}]

-----------------------------------------------------------------------------
(* The state machine *)

NoCall == [fn |-> "none"]

\* a directory: absent, or present with its files (name -> content)
Absent == [dir |-> "absent"]
Dir(files) == [dir |-> "present", files |-> files]
FilesOf(d) == IF d.dir = "present" THEN DOMAIN d.files ELSE {}
\* the directory after `name` is written with `content`
WithFile(d, name, content) == Dir((name :> content) @@ d.files)

\* mk_control imported as a module: the top-level statements have run
Init ==
    /\ module_globals = {"Path", "datetime", "mk_emitimes", "mk_control",
                         "generate_meteorology_files_for_period"}
    /\ call = NoCall
    /\ outcome = NoOutcome
    /\ pc = "idle"
    /\ start_datetime = Unbound
    /\ end_datetime = Unbound
    /\ current_date = Unbound
    /\ files_needed = Unbound
    /\ fs = Absent

Locals == <<start_datetime, end_datetime, current_date, files_needed>>

\* mk_control.py run as a script: the __main__ block's import
MainImport ==
    /\ pc = "idle"
    /\ "timedelta" \notin module_globals
    /\ module_globals' = module_globals \cup {"timedelta"}
    /\ UNCHANGED <<call, outcome, pc, Locals, fs>>

CallMkControl ==
    /\ pc = "idle"
    /\ \E a \in ControlCalls :
        /\ call' = [fn |-> "mk_control", args |-> a]
        /\ outcome' = mk_control(a)
    /\ pc' = "done"
    /\ UNCHANGED <<module_globals, Locals, fs>>

CallMkEmitimes ==
    /\ pc = "idle"
    /\ \E a \in EmitCalls :
        /\ call' = [fn |-> "mk_emitimes", args |-> a]
        /\ outcome' = mk_emitimes(a)
    /\ pc' = "done"
    /\ UNCHANGED <<module_globals, Locals, fs>>

\* generate_meteorology_files_for_period is entered: its parameters are bound
GenEnter ==
    /\ pc = "idle"
    /\ \E a \in GenCalls :
        /\ call' = [fn |-> "generate_meteorology_files_for_period", args |-> a]
        /\ start_datetime' = a.start_datetime
    /\ pc' = "interval"
    /\ UNCHANGED <<module_globals, outcome, end_datetime, current_date, files_needed, fs>>

\* the interval is computed; without a binding of timedelta the first use of
\* the name raises NameError
GenInterval ==
    /\ pc = "interval"
    /\ IF "timedelta" \notin module_globals
        THEN /\ outcome' = Raise("NameError", "timedelta", "")
             /\ end_datetime' =
                    IF call.args.duration_hours < 0 THEN start_datetime ELSE end_datetime
             /\ pc' = "done"
             /\ UNCHANGED <<start_datetime, current_date, files_needed>>
        ELSE /\ start_datetime' = Interval(start_datetime, call.args.duration_hours)[1]
             /\ end_datetime' = Interval(start_datetime, call.args.duration_hours)[2]
             /\ files_needed' = <<>>
             /\ current_date' = start_datetime'
             /\ pc' = "walk"
             /\ UNCHANGED outcome
    /\ UNCHANGED <<module_globals, call, fs>>

\* a walk that moves on by one day
GenWalk_daily ==
    /\ pc = "walk"
    /\ DtLE(current_date, end_datetime)
    /\ files_needed' = Append(files_needed, <<call.args.base_dir, WalkFilename(current_date)>>)
    /\ current_date' = AddDays(current_date, 1)
    /\ UNCHANGED <<module_globals, call, outcome, pc, start_datetime, end_datetime, fs>>

\* one turn of the while loop
GenWalk ==
    /\ pc = "walk"
    /\ DtLE(current_date, end_datetime)
    /\ files_needed' = Append(files_needed, <<call.args.base_dir, WalkFilename(current_date)>>)
    /\ current_date' = AddDays(current_date, 7)
    /\ UNCHANGED <<module_globals, call, outcome, pc, start_datetime, end_datetime, fs>>

\* the loop is left; the list is de-duplicated and returned
GenReturn ==
    /\ pc = "walk"
    /\ ~DtLE(current_date, end_datetime)
    /\ outcome' = Return(Unique(files_needed, {}))
    /\ pc' = "done"
    /\ UNCHANGED <<module_globals, call, Locals, fs>>

-----------------------------------------------------------------------------
(* prepare_files (src/main.py) *)

\* the point lists prepare_files is called with
PfPointLists ==
    {<<>>, <<Nanjing>>, <<Nanjing, West>>, <<NoLat>>, <<NoGas>>, <<Nanjing, NoMass>>}

\* simulation_date: windows in and out of range
PfDates ==
    [year : {2024}, month : {0, 5, 13}, day : {0, 2, 32}, start_hour : {-1, 0, 24},
     duration_hours : {24}]

PfCalls == [dst : {"./hysplit_simulation/session"}, points : PfPointLists,
            simulation_date : PfDates]

\* the arguments prepare_files passes to mk_control and to mk_emitimes
PfControlArgs(a) ==
    [points |-> a.points, year |-> a.simulation_date.year,
     month |-> a.simulation_date.month, day |-> a.simulation_date.day,
     start_hour |-> a.simulation_date.start_hour,
     duration_hours |-> a.simulation_date.duration_hours,
     meteorology_dir |-> "D:/WeatherData/", meteorology_files |-> None,
     top_height |-> PyFloat(10000000), output_dir |-> "./", output_file |-> "cdump",
     vertical_method |-> 0]

PfEmitArgs(a) ==
    [points |-> a.points, year |-> a.simulation_date.year,
     month |-> a.simulation_date.month, day |-> a.simulation_date.day,
     hour |-> a.simulation_date.start_hour, minute |-> 0,
     duration_hours |-> a.simulation_date.duration_hours, duration_minutes |-> 0]

TemplateNames == <<"SETUP.CFG", "ASCDATA.CFG">>

ConcplotBat ==
    << "echo off",
       "C:/hysplit/exec/concplot.exe +g1 -81  -i./cdump -oconcplot.html -jC:/hysplit/graphics/arlmap -f0  -b100 -t100 -e0 -d1 -r1 -c0 -k1 -m0 -s1 -x1.0 -y1.0  -z50 -u -a0 -: -: -: -: -:" >>

ConctxtBat ==
    << "echo off", "C:/hysplit/exec/con2asc.exe -i./cdump -oconcentration.txt" >>

\* prepare_files is entered with a destination that does not exist yet
PfEnter ==
    /\ pc = "idle"
    /\ \E a \in PfCalls : call' = [fn |-> "prepare_files", args |-> a]
    /\ pc' = "pf_mkdir"
    /\ UNCHANGED <<module_globals, outcome, Locals, fs>>

\* dst_path.mkdir(parents=True, exist_ok=True)
PfMkdir ==
    /\ pc = "pf_mkdir"
    /\ fs' = IF fs.dir = "present" THEN fs ELSE Dir(<<>>)
    /\ pc' = "pf_copy"
    /\ UNCHANGED <<module_globals, call, outcome, Locals>>

\* one turn of the loop that copies the template files of ./example
PfCopy ==
    /\ pc = "pf_copy"
    /\ LET n == Cardinality(FilesOf(fs) \cap {"SETUP.CFG", "ASCDATA.CFG"}) + 1 IN
        /\ fs' = WithFile(fs, TemplateNames[n], <<"example/" \o TemplateNames[n]>>)
        /\ pc' = IF n = Len(TemplateNames) THEN "pf_control" ELSE "pf_copy"
    /\ UNCHANGED <<module_globals, call, outcome, Locals>>

\* CONTROL is opened for writing before mk_control is called
PfControl_openFirst ==
    /\ pc = "pf_control"
    /\ IF mk_control(PfControlArgs(call.args)).kind = "raise"
        THEN /\ outcome' = mk_control(PfControlArgs(call.args))
             /\ fs' = WithFile(fs, "CONTROL", <<>>)
             /\ pc' = "done"
        ELSE /\ fs' = WithFile(fs, "CONTROL", mk_control(PfControlArgs(call.args)).value)
             /\ pc' = "pf_emitimes"
             /\ UNCHANGED outcome
    /\ UNCHANGED <<module_globals, call, Locals>>

\* mk_control is called; its exception ends prepare_files, its document is
\* written to CONTROL, each line ended by a newline
PfControl ==
    /\ pc = "pf_control"
    /\ IF mk_control(PfControlArgs(call.args)).kind = "raise"
        THEN /\ outcome' = mk_control(PfControlArgs(call.args))
             /\ pc' = "done"
             /\ UNCHANGED fs
        ELSE /\ fs' = WithFile(fs, "CONTROL", mk_control(PfControlArgs(call.args)).value)
             /\ pc' = "pf_emitimes"
             /\ UNCHANGED outcome
    /\ UNCHANGED <<module_globals, call, Locals>>

\* mk_emitimes is called and its document written to EMITIMES
PfEmitimes ==
    /\ pc = "pf_emitimes"
    /\ IF mk_emitimes(PfEmitArgs(call.args)).kind = "raise"
        THEN /\ outcome' = mk_emitimes(PfEmitArgs(call.args))
             /\ pc' = "done"
             /\ UNCHANGED fs
        ELSE /\ fs' = WithFile(fs, "EMITIMES", mk_emitimes(PfEmitArgs(call.args)).value)
             /\ pc' = "pf_concplot"
             /\ UNCHANGED outcome
    /\ UNCHANGED <<module_globals, call, Locals>>

PfConcplot ==
    /\ pc = "pf_concplot"
    /\ fs' = WithFile(fs, "concplot.bat", ConcplotBat)
    /\ pc' = "pf_conctxt"
    /\ UNCHANGED <<module_globals, call, outcome, Locals>>

\* the last file is written and prepare_files returns
PfConctxt ==
    /\ pc = "pf_conctxt"
    /\ fs' = WithFile(fs, "conctxt.bat", ConctxtBat)
    /\ outcome' = Return(None)
    /\ pc' = "done"
    /\ UNCHANGED <<module_globals, call, Locals>>

Next ==
    \/ MainImport
    \/ CallMkControl
    \/ CallMkEmitimes
    \/ GenEnter
    \/ GenInterval
    \/ GenWalk
    \/ GenReturn
    \/ PfEnter
    \/ PfMkdir
    \/ PfCopy
    \/ PfControl
    \/ PfEmitimes
    \/ PfConcplot
    \/ PfConctxt

Spec == Init /\ [][Next]_vars

-----------------------------------------------------------------------------
(* What the claims speak of *)

Doc == outcome.value
ControlReturned == call.fn = "mk_control" /\ Returned
EmitReturned == call.fn = "mk_emitimes" /\ Returned
NPoints == Len(call.args.points)

InRange(a) == a.month \in 1..12 /\ a.day \in 1..31 /\ a.start_hour \in 0..23

WellFormed(point) == {"lat", "lon", "height", "mass", "gas"} \subseteq DOMAIN point
AllWellFormed(points) == \A i \in 1..Len(points) : WellFormed(points[i])

\* the number a count line shows, -1 when it shows none
ParseCount(line) ==
    IF \E k \in 0..9 : ToString(k) = line
        THEN CHOOSE k \in 0..9 : ToString(k) = line
        ELSE -1

\* line numbers of a CONTROL document, found from the counts it shows
MetCountAt == NPoints + 6
MetCountShown == IF Len(Doc) >= MetCountAt THEN ParseCount(Doc[MetCountAt]) ELSE -1
SpeciesAt == MetCountAt + 2 * MetCountShown + 1
SpeciesShown == IF Len(Doc) >= SpeciesAt THEN ParseCount(Doc[SpeciesAt]) ELSE -1
ReleaseCountAt == SpeciesAt + 2 * SpeciesShown + 3

\* what Python prints for the points of the pool (CONTROL line, str(mass),
\* EMITIMES fields)
CoordOracle(point) ==
    IF point = Nanjing THEN "32.030 118.460   10"
    ELSE IF point = Profile100 THEN "32.030 118.460   100"
    ELSE IF point = West THEN "-33.500 -70.667   10"
    ELSE "31.230 121.470   10"
MassOracle(point) ==
    IF point = Nanjing THEN "100.0"
    ELSE IF point = Profile100 THEN "100"
    ELSE IF point = West THEN "2.5"
    ELSE "1.0"
EmitOracle(point) ==
    IF point = Nanjing THEN "32.03 118.46 10 100.0 0 0"
    ELSE IF point = Profile100 THEN "32.03 118.46 100 100 0 0"
    ELSE IF point = West THEN "-33.5 -70.667 10.5 2.5 4 1.5"
    ELSE "31.23 121.47 10 1.0 0 0"

-----------------------------------------------------------------------------
(* C1 *)

\* C1: a call of mk_control with month outside 1..12, day outside 1..31 or
\* start_hour outside 0..23 raises an error naming a failing field and its
\* value, and returns no document; a call with all three in range and a
\* non-empty list of well-formed points returns a document.
C1_WindowChecked ==
    call.fn = "mk_control" =>
        LET a == call.args IN
        /\ ~InRange(a) =>
            /\ outcome.kind = "raise"
            /\ outcome.exc = "ValueError"
            /\ \/ outcome.what = "month" /\ a.month \notin 1..12
                    /\ outcome.shown = ToString(a.month)
               \/ outcome.what = "day" /\ a.day \notin 1..31
                    /\ outcome.shown = ToString(a.day)
               \/ outcome.what = "start_hour" /\ a.start_hour \notin 0..23
                    /\ outcome.shown = ToString(a.start_hour)
        /\ (InRange(a) /\ Len(a.points) >= 1 /\ AllWellFormed(a.points)) =>
            /\ outcome.kind = "return"
            /\ Len(Doc) > 0

\* a call with day = 32 next to the boundary values month = 12, hour = 23 is
\* rejected naming the day
C1_Witness ==
    /\ call.fn = "mk_control"
    /\ call.args.month = 12 /\ call.args.day = 32 /\ call.args.start_hour = 23
    /\ Len(call.args.points) >= 1
    /\ outcome = Raise("ValueError", "day", "32")

-----------------------------------------------------------------------------
(* C2 *)

\* C2: in a CONTROL document returned for N >= 1 points, line 2 is the
\* decimal count N, lines 3..N+2 are the coordinate lines of the input
\* points in input order, and line N+3 is the signed duration.
C2_PointLines ==
    (ControlReturned /\ NPoints >= 1) =>
        LET a == call.args IN
        /\ Len(Doc) >= NPoints + 3
        /\ Doc[2] = ToString(NPoints)
        /\ \A i \in 1..NPoints :
            /\ Doc[2 + i] = CoordLine(a.points[i])
            /\ Doc[2 + i] = CoordOracle(a.points[i])
        /\ Doc[NPoints + 3] = ToString(a.duration_hours)
        /\ a.duration_hours = -72 => Doc[NPoints + 3] = "-72"

\* a document for two different points, the second line 4
C2_Witness ==
    /\ ControlReturned
    /\ call.args.points = <<West, Nanjing>>
    /\ Doc[2] = "2"
    /\ Doc[3] = "-33.500 -70.667   10"
    /\ Doc[4] = "32.030 118.460   10"
    /\ Doc[5] = "-6"

-----------------------------------------------------------------------------
(* C3 *)

-----------------------------------------------------------------------------
(* C4 *)

FourDigits(n) == <<"0000", "0001", "0002", "0003", "0004">>[n + 1]

\* C4: an EMITIMES document returned for N points has 3 + N lines: the two
\* header lines, the summary line ending in N padded to four digits, and N
\* record lines, the i-th carrying lat, lon, height, mass, area and heat of
\* the i-th point, area and heat 0 when the point has none.
C4_EmitRecords ==
    EmitReturned =>
        LET a == call.args
            stamp == ToString(a.year) \o " " \o Pad(a.month, 2) \o " " \o Pad(a.day, 2)
        IN
        /\ Len(Doc) = 3 + NPoints
        /\ Doc[1] = "YYYY MM DD HH DURATION(hhhh) RECORDS"
        /\ Doc[2] = "YYYY MM DD HH MM DURATION(hhmm) LAT LON HGT(m) RATE(/h) AREA(m2) HEAT(w)"
        /\ Doc[3] = stamp \o " " \o Pad(a.hour, 4) \o " " \o Pad(a.duration_hours, 4)
                        \o " " \o FourDigits(NPoints)
        /\ \A i \in 1..NPoints :
            Doc[3 + i] = stamp \o " " \o Pad(a.hour, 2) \o " " \o Pad(a.minute, 2) \o " "
                            \o Pad(a.duration_hours, 2) \o Pad(a.duration_minutes, 2)
                            \o " " \o EmitOracle(a.points[i])

\* two points, the first without area and heat, the second with both
C4_Witness ==
    /\ EmitReturned
    /\ call.args.points = <<Nanjing, West>>
    /\ Len(Doc) = 5
    /\ Doc[3] = "2024 05 02 0000 0024 0002"
    /\ Doc[4] = "2024 05 02 00 00 2400 32.03 118.46 10 100.0 0 0"
    /\ Doc[5] = "2024 05 02 00 00 2400 -33.5 -70.667 10.5 2.5 4 1.5"

-----------------------------------------------------------------------------
(* C5 *)

\* the weekly filename as the claims state it
ClaimWeek(day) == Min((day - 1) \div 7 + 1, 5)

TwoDigits(n) == IF n < 10 THEN "0" \o ToString(n) ELSE ToString(n)

ClaimName(year, month, day) ==
    "gdas1."
        \o << "jan", "feb", "mar", "apr", "may", "jun",
              "jul", "aug", "sep", "oct", "nov", "dec" >>[month]
        \o TwoDigits(year % 100) \o ".w" \o ToString(ClaimWeek(day))

\* the M pairs after the count line are `pairs`, in order
PairsVerbatim(pairs) ==
    \A j \in 1..Len(pairs) :
        /\ Doc[MetCountAt + 2 * j - 1] = pairs[j][1]
        /\ Doc[MetCountAt + 2 * j] = pairs[j][2]

\* what the weekly filename of the example windows is
AutoOracle(a) ==
    IF a.year = 2024 /\ a.month = 5 /\ a.day = 2 THEN "gdas1.may24.w1"
    ELSE IF a.year = 2024 /\ a.month = 6 /\ a.day = 15 THEN "gdas1.jun24.w3"
    ELSE IF a.year = 2005 /\ a.month = 12 /\ a.day = 31 THEN "gdas1.dec05.w5"
    ELSE IF a.year = 2024 /\ a.month = 1 /\ a.day = 1 THEN "gdas1.jan24.w1"
    ELSE ClaimName(a.year, a.month, a.day)

\* the count line shows M and exactly M pairs lie between it and the
\* species block
MetSectionShape ==
    /\ MetCountShown >= 0
    /\ SpeciesShown = Min(1, NPoints)
    /\ Len(Doc) = MetCountAt + 2 * MetCountShown + 2 * SpeciesShown + 4 + Len(FixedBlock("", ""))

AutoPair(a) ==
    /\ MetCountShown = 1
    /\ Doc[MetCountAt + 1] = a.meteorology_dir
    /\ Doc[MetCountAt + 2] = AutoOracle(a)

-----------------------------------------------------------------------------
(* C6 *)

FixedOracle(a) ==
    << "0.0   0.0", "0.05 0.05", "30 30", a.output_dir, a.output_file, "1", "100",
       "00 00 00 00 00", "00 00 00 00 00", "00 01 00", "1", "0.0 0.0 0.0",
       "0.0 0.0 0.0 0.0 0.0", "0.0 0.0 0.0", "0.0", "0.0" >>

\* C6 as stated: the release-point-count line is followed by exactly fifteen
\* further lines that end the document, the output directory and filename
\* among them.
C6_Original ==
    (ControlReturned /\ NPoints >= 1) =>
        /\ Len(Doc) = ReleaseCountAt + 15
        /\ Doc[ReleaseCountAt + 4] = call.args.output_dir
        /\ Doc[ReleaseCountAt + 5] = call.args.output_file

\* C6 (amended): the release-point-count line is followed by exactly SIXTEEN
\* further lines that end the document; the fourth is the caller's output
\* directory, the fifth the caller's output filename, and the others are
\* constants.
C6_FixedBlock ==
    ControlReturned =>
        /\ Len(Doc) = ReleaseCountAt + 16
        /\ Doc[ReleaseCountAt] = ToString(Min(1, NPoints))
        /\ SubSeq(Doc, ReleaseCountAt + 1, ReleaseCountAt + 16) = FixedOracle(call.args)

\* a document whose output directory and filename are not the defaults
C6_Witness ==
    /\ ControlReturned
    /\ call.args.output_dir = "./output/"
    /\ call.args.output_file = "trajectory_20240502"
    /\ Len(Doc) = ReleaseCountAt + 16
    /\ Doc[ReleaseCountAt + 4] = "./output/"
    /\ Doc[ReleaseCountAt + 5] = "trajectory_20240502"
    /\ Doc[Len(Doc)] = "0.0"

-----------------------------------------------------------------------------
(* C7 *)

WeekFacts(day) ==
    /\ ClaimWeek(day) \in 1..5
    /\ day \in 1..7 => ClaimWeek(day) = 1
    /\ day \in 8..14 => ClaimWeek(day) = 2
    /\ day = 31 => ClaimWeek(day) = 5

\* the walk of generate_meteorology_files_for_period has begun
Walking ==
    /\ call.fn = "generate_meteorology_files_for_period"
    /\ pc \in {"walk", "done"}
    /\ outcome.kind # "raise"

\* the date of the i-th turn of the walk
Sampled(i) == AddDays(start_datetime, 7 * (i - 1))

\* C7: the auto-derived filename is gdas1.<mon><yy>.w<index> with index
\* min(floor((day-1)/7)+1, 5), which lies in 1..5 for every day of 1..31, is 1
\* for days 1..7, 2 for days 8..14 and 5 for day 31; mk_control and
\* generate_meteorology_files_for_period derive the same name for a date.
C7_WeeklyFilename ==
    /\ (ControlReturned /\ ~Truthy(call.args.meteorology_files)) =>
        LET a == call.args IN
        /\ WeekFacts(a.day)
        /\ Doc[MetCountAt + 2] = ClaimName(a.year, a.month, a.day)
        /\ Doc[MetCountAt + 2] = WalkFilename(DateTime(a.year, a.month, a.day, a.start_hour))
    /\ Walking =>
        \A i \in 1..Len(files_needed) :
            /\ WeekFacts(Sampled(i).day)
            /\ files_needed[i][2] = ClaimName(Sampled(i).year, Sampled(i).month, Sampled(i).day)
            /\ files_needed[i][2] =
                ControlMetFile(Sampled(i).year, Sampled(i).month, Sampled(i).day)

\* a walk from day 31: index 5, the name mk_control derives for that date,
\* and index 1 a week later
C7_Witness ==
    /\ Walking
    /\ start_datetime = DateTime(2023, 12, 31, 0)
    /\ Len(files_needed) >= 2
    /\ files_needed[1][2] = "gdas1.dec23.w5"
    /\ files_needed[1][2] = ControlMetFile(2023, 12, 31)
    /\ files_needed[2][2] = "gdas1.jan24.w1"

-----------------------------------------------------------------------------
(* C8 *)

GenReturned == call.fn = "generate_meteorology_files_for_period" /\ Returned

\* where the walk first produced the filename
FirstIndex(name) ==
    CHOOSE k \in 1..Len(files_needed) :
        /\ files_needed[k][2] = name
        /\ \A j \in 1..(k - 1) : files_needed[j][2] # name

-----------------------------------------------------------------------------
(* C9 *)

Max(a, b) == IF a > b THEN a ELSE b

\* C9: for start timestamp s and signed duration d the walk runs over
\* [min(s, s+d hours), max(s, s+d hours)]: from s - |d| hours to s when d is
\* negative, from s to s + d hours otherwise; the interval start is never
\* later than the interval end, the walk begins at the interval start and
\* samples no date after the interval end.
C9_Interval ==
    Walking =>
        LET s == call.args.start_datetime
            d == call.args.duration_hours
        IN
        /\ DtHours(start_datetime) = Min(DtHours(s), DtHours(s) + d)
        /\ DtHours(end_datetime) = Max(DtHours(s), DtHours(s) + d)
        /\ d < 0 => end_datetime = s /\ DtHours(start_datetime) = DtHours(s) - Abs(d)
        /\ d >= 0 => start_datetime = s /\ DtHours(end_datetime) = DtHours(s) + d
        /\ DtHours(start_datetime) <= DtHours(end_datetime)
        /\ start_datetime.day \in 1..DaysInMonth(start_datetime.year, start_datetime.month)
        /\ (s = DateTime(2024, 5, 2, 0) /\ d = -72) =>
            /\ start_datetime = DateTime(2024, 4, 29, 0)
            /\ end_datetime = DateTime(2024, 5, 2, 0)
        /\ current_date = Sampled(Len(files_needed) + 1)
        /\ \A i \in 1..Len(files_needed) : DtHours(Sampled(i)) <= DtHours(end_datetime)
        /\ pc = "done" => DtHours(current_date) > DtHours(end_datetime)

\* the example: three days back from 2024-05-02T00:00
C9_Witness ==
    /\ Walking
    /\ pc = "done"
    /\ call.args.start_datetime = DateTime(2024, 5, 2, 0)
    /\ call.args.duration_hours = -72
    /\ start_datetime = DateTime(2024, 4, 29, 0)
    /\ end_datetime = DateTime(2024, 5, 2, 0)
    /\ Len(files_needed) = 1

-----------------------------------------------------------------------------
(* C10 *)

\* C10: mk_control called with an empty point sequence and a window in range
\* returns no document, and no returned document has a point-count line 0 or
\* a species-count line 0.
C10_NonEmptyRequired ==
    call.fn = "mk_control" =>
        /\ (InRange(call.args) /\ call.args.points = <<>>) => ~Returned
        /\ Returned => Doc[2] # "0" /\ Doc[SpeciesAt] # "0"

-----------------------------------------------------------------------------
(* C11 *)

PfCall == call.fn = "prepare_files"
Generated == {"CONTROL", "EMITIMES", "concplot.bat", "conctxt.bat"}

\* C11: when the simulation window of prepare_files has an out-of-range
\* month, day or start hour, none of CONTROL, EMITIMES, concplot.bat and
\* conctxt.bat is ever written and the call ends with mk_control's error,
\* the destination then holding SETUP.CFG and ASCDATA.CFG only; and the
\* destination never holds an EMITIMES without a CONTROL, nor a CONTROL for
\* an out-of-range window.
C11_InvalidWindowStops ==
    PfCall =>
        LET sd == call.args.simulation_date IN
        /\ ~InRange(sd) =>
            /\ FilesOf(fs) \cap Generated = {}
            /\ pc \in {"pf_mkdir", "pf_copy", "pf_control", "done"}
            /\ pc = "done" =>
                /\ outcome.kind = "raise"
                /\ outcome.exc = "ValueError"
                /\ \/ outcome.what = "month" /\ sd.month \notin 1..12
                   \/ outcome.what = "day" /\ sd.day \notin 1..31
                   \/ outcome.what = "start_hour" /\ sd.start_hour \notin 0..23
                /\ fs = Dir([n \in {"SETUP.CFG", "ASCDATA.CFG"} |-> <<"example/" \o n>>])
        /\ "EMITIMES" \in FilesOf(fs) => "CONTROL" \in FilesOf(fs)
        /\ "CONTROL" \in FilesOf(fs) => InRange(sd)

\* month 13: the call has ended with mk_control's error, two files copied
C11_Witness ==
    /\ PfCall
    /\ pc = "done"
    /\ call.args.simulation_date.month = 13
    /\ call.args.points = <<Nanjing, West>>
    /\ outcome = Raise("ValueError", "month", "13")
    /\ FilesOf(fs) = {"SETUP.CFG", "ASCDATA.CFG"}

-----------------------------------------------------------------------------
(* C12 *)

ReturnedNames == {Doc[i][2] : i \in 1..Len(Doc)}
EndName == ClaimName(end_datetime.year, end_datetime.month, end_datetime.day)

\* C12: the walk can miss the week of the interval's end: for start
\* 2024-05-02T00:00 and duration -72 it samples 2024-04-29 only and the
\* file of 2024-05-02 is not returned; and the file of the end date is
\* absent only for intervals whose length is not a multiple of 7 days.
C12_MissesPartialWeek ==
    GenReturned =>
        /\ (/\ call.args.start_datetime = DateTime(2024, 5, 2, 0)
            /\ call.args.duration_hours = -72) =>
                /\ files_needed = << <<call.args.base_dir, "gdas1.apr24.w5">> >>
                /\ current_date = DateTime(2024, 5, 6, 0)
                /\ EndName = "gdas1.may24.w1"
                /\ EndName \notin ReturnedNames
        /\ EndName \notin ReturnedNames =>
                (DtHours(end_datetime) - DtHours(start_datetime)) % 168 # 0

\* the example: the list returned lacks the file of the end date
C12_Witness ==
    /\ GenReturned
    /\ call.args.start_datetime = DateTime(2024, 5, 2, 0)
    /\ call.args.duration_hours = -72
    /\ end_datetime = DateTime(2024, 5, 2, 0)
    /\ Doc = << <<"D:/WeatherData/", "gdas1.apr24.w5">> >>
    /\ EndName \notin ReturnedNames

-----------------------------------------------------------------------------
(* C13 *)

Lacks(point, keys) == ~(keys \subseteq DOMAIN point)
SomeLacks(points, keys) == \E i \in 1..Len(points) : Lacks(points[i], keys)
FirstLacks(points, keys) == Len(points) >= 1 /\ Lacks(points[1], keys)

\* the call raised KeyError for a key that a point of the call lacks
KeyErrorRaised ==
    /\ outcome.kind = "raise"
    /\ outcome.exc = "KeyError"
    /\ SomeLacks(call.args.points, {outcome.what})

\* C13: mk_control raises a lookup failure if a point lacks lat, lon or
\* height or the first point lacks gas or mass, mk_emitimes if a point
\* lacks lat, lon, height or mass; then no document is returned.  A key is
\* missed only where it is read: a later point without gas or mass, or a
\* point without gas in mk_emitimes, is no error, and a returned document
\* is complete.
C13_KeyErrors ==
    /\ call.fn = "mk_control" =>
        LET a == call.args
            bad == \/ SomeLacks(a.points, {"lat", "lon", "height"})
                   \/ FirstLacks(a.points, {"gas", "mass"})
        IN
        /\ (InRange(a) /\ bad) => KeyErrorRaised
        /\ bad => ~Returned
        /\ (InRange(a) /\ ~bad) => Returned /\ MetSectionShape
    /\ call.fn = "mk_emitimes" =>
        LET bad == SomeLacks(call.args.points, {"lat", "lon", "height", "mass"}) IN
        /\ bad => KeyErrorRaised
        /\ ~bad => Returned /\ Len(Doc) = 3 + NPoints

\* the first point lacks gas: mk_control raises the lookup failure at the
\* species block
C13_Witness ==
    /\ call.fn = "mk_control"
    /\ InRange(call.args)
    /\ call.args.points = <<NoGas, Nanjing>>
    /\ outcome = Raise("KeyError", "gas", "")

-----------------------------------------------------------------------------
(* C14 *)

\* C14: called on the imported module, where only the module's top-level
\* imports have bound names, generate_meteorology_files_for_period
\* completes and returns a list.
C14_ImportedCompletes ==
    (/\ call.fn = "generate_meteorology_files_for_period"
     /\ "timedelta" \notin module_globals
     /\ pc = "done") =>
        /\ outcome.kind = "return"
        /\ Len(outcome.value) >= 1

-----------------------------------------------------------------------------
(* C15 *)

\* the turns a walk of the model can take
MaxTurns == MaxWeeks + 2

\* C15: every pair generate_meteorology_files_for_period returns has the
\* directory base_dir and, as filename, the weekly file of a date
\* interval start + 7k days, k >= 0, that is not later than the interval end.
C15_NoOverSelection ==
    GenReturned =>
        \A i \in 1..Len(Doc) :
            /\ Doc[i][1] = call.args.base_dir
            /\ \E k \in 0..MaxTurns :
                LET date == AddDays(start_datetime, 7 * k) IN
                /\ DtHours(start_datetime) <= DtHours(date)
                /\ DtHours(date) <= DtHours(end_datetime)
                /\ Doc[i][2] = ClaimName(date.year, date.month, date.day)

\* a walk over fifteen days and an hour: three dates, all inside the interval
C15_Witness ==
    /\ GenReturned
    /\ call.args.start_datetime = DateTime(2024, 2, 20, 23)
    /\ call.args.duration_hours = 337
    /\ end_datetime = DateTime(2024, 3, 6, 0)
    /\ Doc = << <<"D:/WeatherData/", "gdas1.feb24.w3">>,
                <<"D:/WeatherData/", "gdas1.feb24.w4">>,
                <<"D:/WeatherData/", "gdas1.mar24.w1">> >>

-----------------------------------------------------------------------------
(* C16 *)

====
